---- MODULE Spec2Model ----
(***************************************************************************)
(* cppbp::basic_string_view (include/cppbp/string_view.hpp).               *)
(*                                                                         *)
(* A view is a pair (m_str, m_size): a pointer into externally owned       *)
(* storage and a unit count.  The storage is the sequence mem; a pointer   *)
(* is an offset into it, so two views can hold the same content at         *)
(* different addresses.  size_type is an unsigned integer of SizeBits      *)
(* bits; arithmetic on it wraps modulo 2^SizeBits and npos is its largest  *)
(* value.                                                                  *)
(*                                                                         *)
(* The header names an undeclared identifier in three places: `v` in find  *)
(* (line 316) and rfind (line 353), and `str.m_size()` in rfind (line      *)
(* 347).  They are read here as what the surrounding code makes of them:   *)
(* the needle parameter str and its m_size field.                          *)
(***************************************************************************)
EXTENDS Integers, Sequences, FiniteSets, TLC

\* Length of the backing store, in units.
MemLen == 3
\* Number of distinct character units.
NumUnits == 2
\* Width of size_type in bits.
SizeBits == 8

SizeMod == 2 ^ SizeBits
npos == SizeMod - 1

Units == 1 .. NumUnits

VARIABLES
    mem,      \* the externally owned storage the views point into
    m_str,    \* this view: offset of its first unit in mem
    m_size,   \* this view: number of units
    call,     \* the last member call: operation and arguments
    result    \* what that call produced

vars == <<mem, m_str, m_size, call, result>>

----------------------------------------------------------------------------
\* size_type arithmetic

Min(a, b) == IF b < a THEN b ELSE a

SizeAdd(a, b) == (a + b) % SizeMod

SizeSub(a, b) == (a - b + SizeMod) % SizeMod

----------------------------------------------------------------------------
\* Views

View(p, n) == [m_str |-> p, m_size |-> n]

Views == {View(p, n) : p \in 0 .. MemLen, n \in 0 .. MemLen} \cap
         {v \in [m_str : 0 .. MemLen, m_size : 0 .. MemLen] : v.m_str + v.m_size <= MemLen}

this == View(m_str, m_size)

\* m_str[i] for an index inside the view
Unit(v, i) == mem[v.m_str + i + 1]

\* the units of a view, in order
Content(v) == [i \in 1 .. v.m_size |-> Unit(v, i - 1)]

Positions == (0 .. MemLen + 1) \cup {npos}

Counts == (0 .. MemLen + 1) \cup {npos}

\* the caller's destination buffers for copy: MemLen units, enough for any copy
DstInits == {[i \in 1 .. MemLen |-> u] : u \in Units}

NoView == View(0, 0)

\* what a call produces: a size or int in ret, a bool in truth, the message
\* of the std::out_of_range thrown in what ("" when nothing was thrown), a
\* returned view in view, the destination buffer in dst, and in reads the
\* indices i of every m_str[i] the call evaluated directly.
NoResult == [ret |-> 0, truth |-> FALSE, what |-> "", view |-> NoView,
             dst |-> <<>>, reads |-> {}]

NoCall == [op |-> "none", self |-> NoView, str |-> NoView, pos |-> 0, n |-> 0,
           dst |-> <<>>]

Throw(msg) == [NoResult EXCEPT !.what = msg]

----------------------------------------------------------------------------
\* std::char_traits

RECURSIVE traits_compare_from(_, _, _, _)
traits_compare_from(p, q, i, n) ==
    IF i = n THEN 0
    ELSE IF mem[p + i + 1] # mem[q + i + 1] THEN mem[p + i + 1] - mem[q + i + 1]
    ELSE traits_compare_from(p, q, i + 1, n)

\* traits_type::compare(s1, s2, n): negative, zero or positive
traits_compare(p, q, n) == traits_compare_from(p, q, 0, n)

\* traits_type::copy(dst, src, n): dst[0 .. n) := src[0 .. n)
traits_copy(d, src, n) ==
    [i \in 1 .. Len(d) |-> IF i <= n THEN mem[src + i] ELSE d[i]]

----------------------------------------------------------------------------
\* Modifiers: the view a call leaves behind

\* remove_prefix that shortens the view without moving its start
remove_prefix_keeps_start(v, n) == View(v.m_str, SizeSub(v.m_size, n))

remove_prefix(v, n) == View(v.m_str + n, SizeSub(v.m_size, n))

remove_suffix(v, n) == View(v.m_str, SizeSub(v.m_size, n))

----------------------------------------------------------------------------
\* String operations

\* substr whose view starts where this view starts instead of at pos
substr_from_start(v, pos, n) ==
    IF pos > v.m_size
    THEN Throw("basic_string_view::copy: position out of range")
    ELSE LET rlen == Min(SizeSub(v.m_size, pos), n)
         IN  [NoResult EXCEPT !.view = View(v.m_str, rlen)]

substr(v, pos, n) ==
    IF pos > v.m_size
    THEN Throw("basic_string_view::copy: position out of range")
    ELSE LET rlen == Min(SizeSub(v.m_size, pos), n)
         IN  [NoResult EXCEPT !.view = View(v.m_str + pos, rlen)]

\* m_str[j] for any j: the unit at address m_str + j when that address is
\* inside the storage, and otherwise whatever the machine finds there (wild)
Deref(v, j, wild) ==
    LET addr == SizeAdd(v.m_str, j)
    IN  IF addr < MemLen THEN mem[addr + 1] ELSE wild

\* at with the bound test off by one
at_accepts_size(v, pos) ==
    IF pos > v.m_size
    THEN Throw("basic_string_view::at: position out of range")
    ELSE [NoResult EXCEPT !.ret = Deref(v, pos, 0), !.reads = {pos}]

at(v, pos) ==
    IF pos >= v.m_size
    THEN Throw("basic_string_view::at: position out of range")
    ELSE [NoResult EXCEPT !.ret = Unit(v, pos), !.reads = {pos}]

\* copy that reads from the start of the view instead of from pos
copy_ignores_pos(v, d, n, pos) ==
    IF pos > v.m_size
    THEN [Throw("basic_string_view::copy: position out of range") EXCEPT !.dst = d]
    ELSE LET rlen == Min(SizeSub(v.m_size, pos), n)
         IN  [NoResult EXCEPT !.dst = traits_copy(d, v.m_str, rlen),
                              !.ret = rlen]

copy(v, d, n, pos) ==
    IF pos > v.m_size
    THEN [Throw("basic_string_view::copy: position out of range") EXCEPT !.dst = d]
    ELSE LET rlen == Min(SizeSub(v.m_size, pos), n)
         IN  [NoResult EXCEPT !.dst = traits_copy(d, v.m_str + pos, rlen),
                              !.ret = rlen]

\* compare without the length tiebreak
compare_prefix_only(v, str) ==
    traits_compare(v.m_str, str.m_str, Min(v.m_size, str.m_size))

compare(v, str) ==
    LET rlen == Min(v.m_size, str.m_size)
        ret  == traits_compare(v.m_str, str.m_str, rlen)
    IN  IF ret # 0 THEN ret
        ELSE IF v.m_size < str.m_size THEN -1
        ELSE IF v.m_size > str.m_size THEN 1
        ELSE 0

\* compare(pos1, n1, str)
compare_pos(v, pos1, n1, str) ==
    LET sub == substr(v, pos1, n1)
    IN  IF sub.what # "" THEN sub
        ELSE [NoResult EXCEPT !.ret = compare(sub.view, str)]

\* equality of the pointers instead of the units
operator_eq_identity(lhs, rhs) == lhs.m_size = rhs.m_size /\ lhs.m_str = rhs.m_str

operator_eq(lhs, rhs) == lhs.m_size = rhs.m_size /\ compare(lhs, rhs) = 0

operator_ne(lhs, rhs) == ~ operator_eq(lhs, rhs)

\* ends_with without the test that x fits into the view
ends_with_unguarded(v, x) ==
    LET c == compare_pos(v, SizeSub(v.m_size, x.m_size), npos, x)
    IN  IF c.what # "" THEN c
        ELSE [NoResult EXCEPT !.truth = (c.ret = 0)]

\* ends_with(basic_string_view x); a failure of the positional compare would
\* leave it as an exception
ends_with(v, x) ==
    IF ~ (v.m_size >= x.m_size) THEN [NoResult EXCEPT !.truth = FALSE]
    ELSE LET c == compare_pos(v, SizeSub(v.m_size, x.m_size), npos, x)
         IN  IF c.what # "" THEN c
             ELSE [NoResult EXCEPT !.truth = (c.ret = 0)]

----------------------------------------------------------------------------
\* Searching

RECURSIVE find_loop(_, _, _, _, _)
find_loop(v, str, offset, increments, i) ==
    IF ~ (i <= increments) THEN npos
    ELSE LET j == SizeAdd(i, offset)
         IN  IF operator_eq(substr(v, j, str.m_size).view, str) THEN j
             ELSE find_loop(v, str, offset, increments, i + 1)

\* find with the scan started one past pos
find_skips_first(v, str, pos) ==
    IF pos > v.m_size THEN npos
    ELSE IF SizeAdd(pos, str.m_size) > v.m_size THEN npos
    ELSE LET offset     == pos
             increments == SizeSub(SizeSub(v.m_size, str.m_size), offset)
         IN  find_loop(v, str, offset, increments, 1)

find(v, str, pos) ==
    IF pos > v.m_size THEN npos
    ELSE IF SizeAdd(pos, str.m_size) > v.m_size THEN npos
    ELSE LET offset     == pos
             increments == SizeSub(SizeSub(v.m_size, str.m_size), offset)
         IN  find_loop(v, str, offset, increments, 0)

RECURSIVE rfind_loop(_, _, _)
rfind_loop(v, str, i) ==
    IF i = npos THEN npos
    ELSE IF operator_eq(substr(v, i, str.m_size).view, str) THEN i
    ELSE rfind_loop(v, str, SizeSub(i, 1))

\* rfind with an empty needle matched at the end of the view
rfind_empty_at_end(v, str, pos) ==
    IF v.m_size = 0 THEN (IF str.m_size = 0 THEN 0 ELSE npos)
    ELSE IF str.m_size = 0 THEN Min(v.m_size, pos)
    ELSE IF str.m_size > v.m_size THEN npos
    ELSE rfind_loop(v, str, Min(pos, SizeSub(v.m_size, str.m_size)))

rfind(v, str, pos) ==
    IF v.m_size = 0 THEN (IF str.m_size = 0 THEN 0 ELSE npos)
    ELSE IF str.m_size = 0 THEN Min(SizeSub(v.m_size, 1), pos)
    ELSE IF str.m_size > v.m_size THEN npos
    ELSE rfind_loop(v, str, Min(pos, SizeSub(v.m_size, str.m_size)))

is_one_of(c, str) == \E k \in 0 .. str.m_size - 1 : c = Unit(str, k)

\* the loop of find_last_of: every round looks at the same j = last_index - 1
RECURSIVE find_last_of_loop(_, _, _, _, _)
find_last_of_loop(v, str, last_index, i, wild) ==
    IF ~ (i <= last_index) THEN npos
    ELSE LET j == SizeSub(last_index, 1)
         IN  IF is_one_of(Deref(v, j, wild), str) THEN j
             ELSE find_last_of_loop(v, str, last_index, i + 1, wild)

find_last_of(v, str, pos, wild) ==
    IF v.m_size = 0 THEN [NoResult EXCEPT !.ret = npos]
    ELSE LET last_index == Min(SizeSub(v.m_size, 1), pos)
         IN  [NoResult EXCEPT !.ret = find_last_of_loop(v, str, last_index, 0, wild),
                              !.reads = {SizeSub(last_index, 1)}]

RECURSIVE find_last_not_of_loop(_, _, _, _, _)
find_last_not_of_loop(v, str, last_index, i, wild) ==
    IF ~ (i <= last_index) THEN npos
    ELSE LET j == SizeSub(last_index, 1)
         IN  IF ~ is_one_of(Deref(v, j, wild), str) THEN j
             ELSE find_last_not_of_loop(v, str, last_index, i + 1, wild)

find_last_not_of(v, str, pos, wild) ==
    IF v.m_size = 0 THEN [NoResult EXCEPT !.ret = npos]
    ELSE LET last_index == Min(SizeSub(v.m_size, 1), pos)
         IN  [NoResult EXCEPT !.ret = find_last_not_of_loop(v, str, last_index, 0, wild),
                              !.reads = {SizeSub(last_index, 1)}]

----------------------------------------------------------------------------
\* The program: a caller holding one view and calling its members

Init ==
    /\ mem \in [1 .. MemLen -> Units]
    /\ m_str = 0
    /\ m_size = MemLen
    /\ call = NoCall
    /\ result = NoResult

\* the caller is sequential: it makes a call, looks at what the call produced
\* and only then goes on
Idle == call.op = "none"

\* basic_string_view(const_pointer str, size_type count), assigned to the view
Construct(p, count) ==
    /\ Idle
    /\ m_str' = p
    /\ m_size' = count
    /\ UNCHANGED <<mem, call, result>>

\* the caller is done with the result of the last call
Discard ==
    /\ ~ Idle
    /\ call' = NoCall
    /\ result' = NoResult
    /\ UNCHANGED <<mem, m_str, m_size>>

Find(str, pos) ==
    /\ Idle
    /\ call' = [NoCall EXCEPT !.op = "find", !.self = this, !.str = str, !.pos = pos]
    /\ result' = [NoResult EXCEPT !.ret = find(this, str, pos)]
    /\ UNCHANGED <<mem, m_str, m_size>>

RFind(str, pos) ==
    /\ Idle
    /\ call' = [NoCall EXCEPT !.op = "rfind", !.self = this, !.str = str, !.pos = pos]
    /\ result' = [NoResult EXCEPT !.ret = rfind(this, str, pos)]
    /\ UNCHANGED <<mem, m_str, m_size>>

\* a read outside the storage yields some unit, wild
FindLastOf(str, pos, wild) ==
    /\ Idle
    /\ call' = [NoCall EXCEPT !.op = "find_last_of", !.self = this, !.str = str,
                              !.pos = pos]
    /\ result' = find_last_of(this, str, pos, wild)
    /\ UNCHANGED <<mem, m_str, m_size>>

FindLastNotOf(str, pos, wild) ==
    /\ Idle
    /\ call' = [NoCall EXCEPT !.op = "find_last_not_of", !.self = this, !.str = str,
                              !.pos = pos]
    /\ result' = find_last_not_of(this, str, pos, wild)
    /\ UNCHANGED <<mem, m_str, m_size>>

Compare(str) ==
    /\ Idle
    /\ call' = [NoCall EXCEPT !.op = "compare", !.self = this, !.str = str]
    /\ result' = [NoResult EXCEPT !.ret = compare(this, str)]
    /\ UNCHANGED <<mem, m_str, m_size>>

ComparePos(pos1, n1, str) ==
    /\ Idle
    /\ call' = [NoCall EXCEPT !.op = "compare_pos", !.self = this, !.str = str,
                              !.pos = pos1, !.n = n1]
    /\ result' = compare_pos(this, pos1, n1, str)
    /\ UNCHANGED <<mem, m_str, m_size>>

Substr(pos, n) ==
    /\ Idle
    /\ call' = [NoCall EXCEPT !.op = "substr", !.self = this, !.pos = pos, !.n = n]
    /\ result' = substr(this, pos, n)
    /\ UNCHANGED <<mem, m_str, m_size>>

At(pos) ==
    /\ Idle
    /\ call' = [NoCall EXCEPT !.op = "at", !.self = this, !.pos = pos]
    /\ result' = at(this, pos)
    /\ UNCHANGED <<mem, m_str, m_size>>

\* d is the caller's buffer as it is before the call
Copy(d, n, pos) ==
    /\ Idle
    /\ call' = [NoCall EXCEPT !.op = "copy", !.self = this, !.pos = pos, !.n = n,
                              !.dst = d]
    /\ result' = copy(this, d, n, pos)
    /\ UNCHANGED <<mem, m_str, m_size>>

OperatorEq(rhs) ==
    /\ Idle
    /\ call' = [NoCall EXCEPT !.op = "operator==", !.self = this, !.str = rhs]
    /\ result' = [NoResult EXCEPT !.truth = operator_eq(this, rhs)]
    /\ UNCHANGED <<mem, m_str, m_size>>

OperatorNe(rhs) ==
    /\ Idle
    /\ call' = [NoCall EXCEPT !.op = "operator!=", !.self = this, !.str = rhs]
    /\ result' = [NoResult EXCEPT !.truth = operator_ne(this, rhs)]
    /\ UNCHANGED <<mem, m_str, m_size>>

EndsWith(x) ==
    /\ Idle
    /\ call' = [NoCall EXCEPT !.op = "ends_with", !.self = this, !.str = x]
    /\ result' = ends_with(this, x)
    /\ UNCHANGED <<mem, m_str, m_size>>

\* assert(n <= m_size) is the guard: the call is made within its precondition
RemovePrefix(n) ==
    /\ Idle
    /\ n <= m_size
    /\ m_str' = remove_prefix(this, n).m_str
    /\ m_size' = remove_prefix(this, n).m_size
    /\ call' = [NoCall EXCEPT !.op = "remove_prefix", !.self = this, !.n = n]
    /\ result' = NoResult
    /\ UNCHANGED mem

RemoveSuffix(n) ==
    /\ Idle
    /\ n <= m_size
    /\ m_str' = remove_suffix(this, n).m_str
    /\ m_size' = remove_suffix(this, n).m_size
    /\ call' = [NoCall EXCEPT !.op = "remove_suffix", !.self = this, !.n = n]
    /\ result' = NoResult
    /\ UNCHANGED mem

Next ==
    \/ Idle /\ \E v \in Views : Construct(v.m_str, v.m_size)
    \/ Discard
    \/ Idle /\ \E str \in Views, pos \in Positions : Find(str, pos)
    \/ Idle /\ \E str \in Views, pos \in Positions : RFind(str, pos)
    \/ Idle /\ \E str \in Views, pos \in Positions, wild \in Units : FindLastOf(str, pos, wild)
    \/ Idle /\ \E str \in Views, pos \in Positions, wild \in Units : FindLastNotOf(str, pos, wild)
    \/ Idle /\ \E str \in Views : Compare(str)
    \/ Idle /\ \E pos1 \in Positions, n1 \in Counts, str \in Views : ComparePos(pos1, n1, str)
    \/ Idle /\ \E pos \in Positions, n \in Counts : Substr(pos, n)
    \/ Idle /\ \E pos \in Positions : At(pos)
    \/ Idle /\ \E d \in DstInits, n \in Counts, pos \in Positions : Copy(d, n, pos)
    \/ Idle /\ \E rhs \in Views : OperatorEq(rhs)
    \/ Idle /\ \E rhs \in Views : OperatorNe(rhs)
    \/ Idle /\ \E x \in Views : EndsWith(x)
    \/ Idle /\ \E n \in 0 .. MemLen : RemovePrefix(n)
    \/ Idle /\ \E n \in 0 .. MemLen : RemoveSuffix(n)

Spec == Init /\ [][Next]_vars

\* a view over the whole store that is only ever narrowed
NextNarrow ==
    \/ Discard
    \/ Idle /\ \E n \in 0 .. MemLen : RemovePrefix(n)
    \/ Idle /\ \E n \in 0 .. MemLen : RemoveSuffix(n)

SpecNarrow == Init /\ [][NextNarrow]_vars

----------------------------------------------------------------------------
\* Vocabulary of the properties

\* S[r .. r + size(N)) equals N unit for unit
MatchesAt(S, N, r) ==
    /\ r + N.m_size <= S.m_size
    /\ \A k \in 0 .. N.m_size - 1 : Unit(S, r + k) = Unit(N, k)

SetMin(X) == CHOOSE x \in X : \A y \in X : x <= y

SetMax(X) == CHOOSE x \in X : \A y \in X : y <= x

Sign(x) == IF x < 0 THEN -1 ELSE IF x > 0 THEN 1 ELSE 0

----------------------------------------------------------------------------
----------------------------------------------------------------------------
\* the rightmost index j <= min(pos, size - 1) whose unit satisfies P, or npos
LastIndexWhere(S, pos, P(_)) ==
    LET hits == {j \in 0 .. S.m_size - 1 : j <= pos /\ P(Unit(S, j))}
    IN  IF hits = {} THEN npos ELSE SetMax(hits)

InsideView(S, idx) == idx \subseteq 0 .. S.m_size - 1

\* C2: find_last_of(C, pos) returns the largest j <= min(pos, size - 1) with
\* S[j] in C, npos when the view is empty or there is no such j, and reads no
\* unit outside [0, size).
C2_FindLastOf ==
    call.op = "find_last_of" =>
        LET S == call.self
            InC(u) == \E k \in 0 .. call.str.m_size - 1 : Unit(call.str, k) = u
        IN  /\ result.ret = LastIndexWhere(S, call.pos, InC)
            /\ InsideView(S, result.reads)

\* C3: find_last_not_of(C, pos) returns the largest j <= min(pos, size - 1)
\* with S[j] not in C, npos when the view is empty or every such unit is in C,
\* and reads no unit outside [0, size).
C3_FindLastNotOf ==
    call.op = "find_last_not_of" =>
        LET S == call.self
            NotInC(u) == \A k \in 0 .. call.str.m_size - 1 : Unit(call.str, k) # u
        IN  /\ result.ret = LastIndexWhere(S, call.pos, NotInC)
            /\ InsideView(S, result.reads)

FirstDiff(A, B) ==
    LET m == Min(A.m_size, B.m_size)
    IN  SetMin({k \in 0 .. m : k = m \/ Unit(A, k) # Unit(B, k)})

\* C5: the sign of compare(A, B) is that of the first differing unit pair in
\* the common prefix, and that of size(A) - size(B) when the prefix is equal;
\* compare is antisymmetric in sign and <= 0 is transitive.
C5_CompareTotalOrder ==
    call.op = "compare" =>
        LET A == call.self
            B == call.str
            k == FirstDiff(A, B)
        IN  /\ Sign(result.ret) =
                   (IF k < Min(A.m_size, B.m_size)
                    THEN Sign(Unit(A, k) - Unit(B, k))
                    ELSE Sign(A.m_size - B.m_size))
            /\ Sign(result.ret) = - Sign(compare(B, A))
            /\ (result.ret <= 0 =>
                   \A C \in Views : compare(B, C) <= 0 => compare(A, C) <= 0)

C5_Witness ==
    /\ call.op = "compare"
    /\ call.self.m_size = 2
    /\ call.str.m_size = 3
    /\ FirstDiff(call.self, call.str) = 2
    /\ result.ret < 0

\* C6: substr(pos, count) with pos <= size is the view of the
\* min(size - pos, count) units S[pos], S[pos + 1], ...; with pos > size it
\* signals out-of-range and returns no view.
C6_Substr ==
    call.op = "substr" =>
        LET S == call.self
        IN  IF call.pos <= S.m_size
            THEN /\ result.what = ""
                 /\ result.view.m_size = Min(S.m_size - call.pos, call.n)
                 /\ (call.n = npos => result.view.m_size = S.m_size - call.pos)
                 /\ \A i \in 0 .. result.view.m_size - 1 :
                        Unit(result.view, i) = Unit(S, call.pos + i)
            ELSE /\ result.what # ""
                 /\ result.view = NoView

C6_Witness ==
    /\ call.op = "substr"
    /\ call.self.m_size = 3
    /\ call.pos = 1
    /\ call.n = 1
    /\ result.view.m_size = 1

\* the operation a failure message names: the text between "::" and ":"
MessageOperation(msg) ==
    CASE msg = "basic_string_view::at: position out of range"   -> "at"
      [] msg = "basic_string_view::copy: position out of range" -> "copy"
      [] OTHER -> "none"

\* the member a call is a call of
CalledOperation(c) == IF c.op = "compare_pos" THEN "compare" ELSE c.op

\* C7: the message of every out-of-range failure names the operation that
\* failed: at, substr, copy or the positional compare.
C7_MessageNamesOperation ==
    result.what # "" => MessageOperation(result.what) = CalledOperation(call)

\* C8: at(pos) returns S[pos] when pos < size and signals out-of-range when
\* pos >= size, in particular at pos = size for every size; the view is as it
\* was before the call.
C8_At ==
    call.op = "at" =>
        LET S == call.self
        IN  /\ (call.pos < S.m_size =>
                   result.what = "" /\ result.ret = Unit(S, call.pos))
            /\ (call.pos >= S.m_size => result.what # "")
            /\ this = S

C8_Witness ==
    /\ call.op = "at"
    /\ call.self.m_size = 0
    /\ call.pos = 0
    /\ result.what # ""

\* C9: copy(D, n, pos) with pos <= size writes the r = min(size - pos, n) units
\* S[pos ..] to D[0 .. r), leaves the rest of D and the view as they were and
\* returns r; with pos > size it signals out-of-range and writes nothing.
C9_Copy ==
    call.op = "copy" =>
        LET S == call.self
            r == Min(S.m_size - call.pos, call.n)
        IN  /\ this = S
            /\ Len(result.dst) = Len(call.dst)
            /\ IF call.pos <= S.m_size
               THEN /\ result.what = ""
                    /\ result.ret = r
                    /\ \A i \in 0 .. r - 1 : result.dst[i + 1] = Unit(S, call.pos + i)
                    /\ \A i \in r .. Len(call.dst) - 1 : result.dst[i + 1] = call.dst[i + 1]
                    /\ (call.pos = 0 /\ call.n >= S.m_size =>
                           SubSeq(result.dst, 1, S.m_size) = Content(S))
               ELSE /\ result.what # ""
                    /\ result.dst = call.dst

C9_Witness ==
    /\ call.op = "copy"
    /\ call.self.m_size = 3
    /\ call.pos = 1
    /\ call.n = 1
    /\ result.ret = 1
    /\ result.dst[1] # call.dst[1]

SameUnits(A, B) ==
    /\ A.m_size = B.m_size
    /\ \A i \in 0 .. A.m_size - 1 : Unit(A, i) = Unit(B, i)

\* C10: A == B holds exactly when A and B have the same size and the same
\* units, wherever they point; A != B is its negation; A == B holds exactly
\* when compare(A, B) = 0.
C10_Equality ==
    /\ call.op = "operator==" =>
          /\ result.truth <=> SameUnits(call.self, call.str)
          /\ result.truth <=> (compare(call.self, call.str) = 0)
    /\ call.op = "operator!=" =>
          result.truth <=> ~ SameUnits(call.self, call.str)

C10_Witness ==
    /\ call.op = "operator=="
    /\ call.self.m_size = 2
    /\ call.self.m_str # call.str.m_str
    /\ result.truth

\* C11: ends_with(X) is true exactly when X is no longer than the view and
\* the last size(X) units of the view equal X; it is false, and no failure is
\* signalled, when X is longer than the view; it is true when X is empty.
C11_EndsWith ==
    call.op = "ends_with" =>
        LET S == call.self
            X == call.str
        IN  /\ result.what = ""
            /\ result.truth <=>
                  /\ X.m_size <= S.m_size
                  /\ \A k \in 0 .. X.m_size - 1 :
                        Unit(S, S.m_size - X.m_size + k) = Unit(X, k)
            /\ (X.m_size > S.m_size => ~ result.truth)
            /\ (X.m_size = 0 => result.truth)

C11_Witness ==
    /\ call.op = "ends_with"
    /\ call.self.m_size = 3
    /\ call.str.m_size = 1
    /\ call.str.m_str = 0
    /\ result.truth

\* C12: from a view over [0, MemLen), after any remove_prefix(n) and
\* remove_suffix(n) calls with n <= size the view is a window inside the
\* store; remove_prefix(n) adds n to the start and takes n from the size,
\* remove_suffix(n) takes n from the size only, n = 0 changes nothing, no step
\* grows the window and no step changes the store.
C12_Narrowing ==
    /\ [](/\ 0 <= m_str
          /\ m_str + m_size <= MemLen
          /\ (call.op = "remove_prefix" =>
                 /\ m_str = call.self.m_str + call.n
                 /\ m_size = call.self.m_size - call.n)
          /\ (call.op = "remove_suffix" =>
                 /\ m_str = call.self.m_str
                 /\ m_size = call.self.m_size - call.n)
          /\ (call.op \in {"remove_prefix", "remove_suffix"} /\ call.n = 0 =>
                 this = call.self))
    /\ [][/\ m_str <= m_str'
          /\ m_str' + m_size' <= m_str + m_size
          /\ mem' = mem]_vars

C12_Witness ==
    /\ call.op = "remove_prefix"
    /\ call.n = 1
    /\ call.self.m_str = 1
    /\ call.self.m_size = MemLen - 2
    /\ m_str = 2

====
